---- MODULE Spec2Model ----
(***************************************************************************)
(* A model of Waveforms/simpletensors.py: vectors, tensor products         *)
(* (an ordered list of vectors, a coefficient and a symmetric flag) and    *)
(* tensors (a list of references to tensor-product objects).               *)
(*                                                                         *)
(* Scalars are integers: sympy's simplify() is the identity on them and    *)
(* the test "== 0" is exact.  TensorProduct objects live in a heap `tp`,   *)
(* because Tensor.compress rewrites the coefficient of a term object in    *)
(* place and term objects are shared between tensors.                      *)
(***************************************************************************)
EXTENDS Integers, Sequences, FiniteSets, TLC

VARIABLES tp, tensors, last, ops

vars == <<tp, tensors, last, ops>>

(***************************************************************************)
(* Bounds of the model.                                                    *)
(***************************************************************************)
MaxRank == 3

MaxCoeff == 1

MaxTerms == 3

MaxOps == 3

MaxSum == 4
\* the longest name or text handed to the string functions, in characters
MaxLen == 3
\* the number of times DifferentiateString is applied to its own result
MaxApply == 3

(***************************************************************************)
(* Scalars and small helpers.                                              *)
(***************************************************************************)
simplify(x) == x

Abs(x) == IF x < 0 THEN -x ELSE x

Min(a, b) == IF a < b THEN a ELSE b

RECURSIVE sum(_)
sum(s) == IF s = << >> THEN 0 ELSE Head(s) + sum(Tail(s))

RECURSIVE prod(_)
prod(s) == IF s = << >> THEN 1 ELSE Head(s) * prod(Tail(s))

RECURSIVE Fact(_)
Fact(n) == IF n = 0 THEN 1 ELSE n * Fact(n - 1)

SeqsUpTo(S, n) == UNION {[1..m -> S] : m \in 0..n}

(***************************************************************************)
(* What an operation returns: a Scalar (val), a TensorProduct or a Tensor  *)
(* (obj, the index of the object), or the exception it raises.             *)
(***************************************************************************)
Ret(kind, val, obj) == [kind |-> kind, val |-> val, obj |-> obj]

Scalar(x) == Ret("Scalar", x, 0)

Raise(e) == Ret(e, 0, 0)

Exceptions == {"ValueError", "NameError", "AttributeError", "IndexError", "RuntimeError"}

(***************************************************************************)
(* Vectors.  A vector is its class (one class per VectorFunction call),    *)
(* carrying its components; e1 and e2 are orthonormal in three dimensions  *)
(* and u has two components.                                               *)
(***************************************************************************)
Vecs == {"e1", "e2", "u"}

components(v) == CASE v = "e1" -> <<1, 0, 0>>
                   [] v = "e2" -> <<0, 1, 0>>
                   [] v = "u"  -> <<1, 2>>

\* zip(self, other): pairs up to the end of the shorter operand
zip(a, b) == [i \in 1..Min(Len(a), Len(b)) |-> <<a[i], b[i]>>]

\* _VectorFunction.__or__: sum( s*o for s,o in zip(self, other) )
VectorOr(v, w) ==
    LET z == zip(components(v), components(w))
    IN  sum([i \in 1..Len(z) |-> z[i][1] * z[i][2]])

(***************************************************************************)
(* TensorProduct objects.                                                  *)
(***************************************************************************)
TensorProduct(vs, c, s) == [vectors |-> vs, coefficient |-> c, symmetric |-> s]

rank(A) == Len(A.vectors)

Coeffs == (-MaxCoeff)..MaxCoeff

TPValues == {TensorProduct(vs, c, s) : vs \in SeqsUpTo(Vecs, MaxRank), c \in Coeffs, s \in BOOLEAN}

\* The TensorProducts constructed under Spec: a scalar term, the same basis
\* element with opposite coefficients, a symmetric pair over one multiset (one
\* of them with a zero coefficient), and a rank-3 product of either kind.
HeapTPValues ==
    { TensorProduct(<< >>, 1, FALSE),
      TensorProduct(<<"e1", "e2">>, 1, FALSE),
      TensorProduct(<<"e1", "e2">>, -1, FALSE),
      TensorProduct(<<"e2", "e1">>, 0, TRUE),
      TensorProduct(<<"e1", "e2">>, 1, TRUE),
      TensorProduct(<<"e1", "e2", "e1">>, 1, FALSE),
      TensorProduct(<<"e1", "e1", "e2">>, 1, TRUE) }

Count(s, v) == Cardinality({i \in 1..Len(s) : s[i] = v})

\* collections.Counter(vectors): the multiset of the vectors
Counter(s) == [v \in Vecs |-> Count(s, v)]

has_same_basis_element(A, B) ==
    IF A.symmetric THEN Counter(A.vectors) = Counter(B.vectors)
    ELSE A.vectors = B.vectors

TensorProductOrDropsCoefficient(A, B) ==
    IF rank(B) # rank(A) THEN Raise("ValueError")
    ELSE IF A.symmetric THEN Raise("NameError")
    ELSE Scalar(A.coefficient * prod([i \in 1..rank(A) |-> VectorOr(A.vectors[i], B.vectors[i])]))

\* _TensorProductFunction.__or__ with a TensorProduct B.  The symmetric branch
\* calls factorial(self.rank); the module neither imports nor defines
\* factorial, so evaluating that name raises NameError before anything else
\* of the branch is computed.
TensorProductOr(A, B) ==
    IF rank(B) # rank(A) THEN Raise("ValueError")
    ELSE IF A.symmetric THEN Raise("NameError")
    ELSE LET z == zip(A.vectors, B.vectors)
         IN  Scalar((A.coefficient * B.coefficient)
                      * prod([i \in 1..Len(z) |-> VectorOr(z[i][1], z[i][2])]))

\* _TensorProductFunction.trace(j, k), slots counted from 0 as in the source.
\* new holds the TensorProduct the call constructs and returns, if any.
TraceRet(ret, new) == [ret |-> ret, new |-> new]

NonzeroPair(A) ==
    \E a \in 1..rank(A), b \in 1..rank(A) :
        a # b /\ simplify(A.coefficient * VectorOr(A.vectors[a], A.vectors[b])) # 0

without(vs, j, k) == SelectSeq([i \in 1..Len(vs) |-> <<i, vs[i]>>],
                               LAMBDA p : p[1] # j + 1 /\ p[1] # k + 1)

TensorProductTrace(A, j, k) ==
    IF j >= rank(A) \/ k >= rank(A) THEN TraceRet(Raise("IndexError"), << >>)
    ELSE LET coefficient == simplify(A.coefficient * VectorOr(A.vectors[j + 1], A.vectors[k + 1]))
             rest == without(A.vectors, j, k)
         IN  IF rank(A) = 2 THEN TraceRet(Scalar(coefficient), << >>)
             ELSE IF coefficient = 0 THEN TraceRet(Scalar(0), << >>)
             ELSE IF A.symmetric
                  THEN \* the first pair with a non-zero coefficient evaluates
                       \* factorial(self.rank): NameError; with no such pair T
                       \* stays the integer 0 and T.compress() fails
                       IF NonzeroPair(A) THEN TraceRet(Raise("NameError"), << >>)
                       ELSE TraceRet(Raise("AttributeError"), << >>)
             ELSE TraceRet(Ret("TensorProduct", 0, 0),
                           <<TensorProduct([i \in 1..Len(rest) |-> rest[i][2]], coefficient, FALSE)>>)

(***************************************************************************)
(* The record of the last operation: what was called, on what, and what it *)
(* returned.  tp0 and ids0 are the heap and the term list a compress call  *)
(* started from.                                                           *)
(***************************************************************************)
NoOther == [kind |-> "None", ref |-> 0]

Op(op, self, other, vs, j, k, ret, tp0, ids0) ==
    [op |-> op, self |-> self, other |-> other, vs |-> vs, j |-> j, k |-> k,
     ret |-> ret, tp0 |-> tp0, ids0 |-> ids0]

(***************************************************************************)
(* SpecTP: one TensorProduct A is constructed, then one operation of the   *)
(* vector and tensor-product layer is applied.                             *)
(***************************************************************************)
InitTP ==
    /\ \E A \in TPValues : tp = <<A>>
    /\ tensors = << >>
    /\ ops = 0
    /\ last = Op("TensorProduct", 0, NoOther, << >>, 0, 0, Ret("TensorProduct", 0, 1), << >>, << >>)

DoVectorOr ==
    /\ last.op = "TensorProduct"
    /\ \E v \in Vecs, w \in Vecs :
          last' = Op("VectorOr", 0, NoOther, <<v, w>>, 0, 0, Scalar(VectorOr(v, w)), << >>, << >>)
    /\ ops' = ops + 1
    /\ UNCHANGED <<tp, tensors>>

DoTensorProductOr ==
    /\ last.op = "TensorProduct"
    /\ \E B \in TPValues :
          /\ tp' = Append(tp, B)
          /\ last' = Op("TensorProductOr", 1, [kind |-> "TensorProduct", ref |-> 2], << >>, 0, 0,
                        TensorProductOr(tp[1], B), << >>, << >>)
    /\ ops' = ops + 1
    /\ UNCHANGED tensors

DoTensorProductTrace ==
    /\ last.op = "TensorProduct"
    /\ \E j \in 0..(MaxRank - 1), k \in 0..(MaxRank - 1) :
          LET r == TensorProductTrace(tp[1], j, k)
          IN  /\ tp' = tp \o r.new
              /\ last' = Op("TensorProductTrace", 1, NoOther, << >>, j, k,
                            IF r.new = << >> THEN r.ret ELSE Ret("TensorProduct", 0, Len(tp) + 1),
                            << >>, << >>)
    /\ ops' = ops + 1
    /\ UNCHANGED tensors

NextTP == DoVectorOr \/ DoTensorProductOr \/ DoTensorProductTrace

SpecTP == InitTP /\ [][NextTP]_vars

(***************************************************************************)
(* Tensors.  A Tensor object is its tensor_products list: a sequence of    *)
(* references into the heap tp.  Several positions, of one Tensor or of    *)
(* different Tensors, may hold the same reference.                         *)
(***************************************************************************)
TensorRank(h, ids) == IF ids = << >> THEN 0 ELSE rank(h[ids[1]])

NoListRankError(h, ids) == FALSE

\* Tensor(list): the constructor's check that every term has the rank of the first
ListRankError(h, ids) == \E i \in 1..Len(ids) : rank(h[ids[i]]) # rank(h[ids[1]])

KeepAll(ids, R) == ids

KeepNot(ids, R) ==
    LET pos == SelectSeq([i \in 1..Len(ids) |-> i], LAMBDA i : i \notin R)
    IN  [n \in 1..Len(pos) |-> ids[pos[n]]]

\* compress: the loop over j for one i.  The term object ids[i] has its
\* coefficient rewritten in place.
RECURSIVE compress_j(_, _, _, _, _)
compress_j(h, ids, R, i, j) ==
    IF j > Len(ids) THEN [h |-> h, R |-> R]
    ELSE IF j \in R THEN compress_j(h, ids, R, i, j + 1)
    ELSE IF has_same_basis_element(h[ids[i]], h[ids[j]])
         THEN compress_j([h EXCEPT ![ids[i]].coefficient =
                              simplify(h[ids[i]].coefficient + h[ids[j]].coefficient)],
                         ids, R \cup {j}, i, j + 1)
         ELSE compress_j(h, ids, R, i, j + 1)

\* compress: the loop over i; R is removed_elements
RECURSIVE compress_i(_, _, _, _)
compress_i(h, ids, R, i) ==
    IF i > Len(ids) THEN [h |-> h, R |-> R]
    ELSE IF i \in R THEN compress_i(h, ids, R, i + 1)
    ELSE LET s == compress_j(h, ids, R, i, i + 1)
         IN  compress_i(s.h, ids,
                        IF s.R # {} /\ s.h[ids[i]].coefficient = 0 THEN s.R \cup {i} ELSE s.R,
                        i + 1)

\* _TensorFunction.compress on the term list ids over the heap h: the heap
\* after it and the new term list (empty: the call returns 0)
compress(h, ids) ==
    LET s == compress_i(h, ids, {}, 1)
    IN  [h |-> s.h, ids |-> KeepNot(ids, s.R)]

\* _TensorProductFunction.__mul__(self, B) for B a TensorProduct, a Vector, a Scalar
TensorProductMul(A, B) == TensorProduct(A.vectors \o B.vectors,
                                        simplify(A.coefficient * B.coefficient), A.symmetric)

TensorProductMulVector(A, v) == TensorProduct(A.vectors \o <<v>>, A.coefficient, A.symmetric)

TensorProductMulScalar(A, x) == TensorProduct(A.vectors, A.coefficient * x, A.symmetric)

Flatten2(ss) ==
    LET RECURSIVE F(_)
        F(q) == IF q = << >> THEN << >> ELSE Head(q) \o F(Tail(q))
    IN  F(ss)

InCap(h) == \A i \in 1..Len(h) : Abs(h[i].coefficient) <= MaxSum /\ rank(h[i]) <= MaxRank

(***************************************************************************)
(* Spec: TensorProducts and Tensors are constructed, added, copied,        *)
(* multiplied, traced and compressed in any order.                         *)
(***************************************************************************)
TPRefs == 1..Len(tp)

TensorRefs == 1..Len(tensors)

Init ==
    /\ tp = << >>
    /\ tensors = << >>
    /\ ops = 0
    /\ last = Op("None", 0, NoOther, << >>, 0, 0, Scalar(0), << >>, << >>)

\* one more operation is performed
Step ==
    /\ ops < MaxOps
    /\ ops' = ops + 1

Done(op, self, other, ret) == Op(op, self, other, << >>, 0, 0, ret, << >>, << >>)

NewTensorProduct ==
    /\ Step
    /\ \E A \in HeapTPValues :
          /\ tp' = Append(tp, A)
          /\ last' = Done("TensorProduct", 0, NoOther, Ret("TensorProduct", 0, Len(tp) + 1))
    /\ UNCHANGED tensors

\* Tensor(t_p) and Tensor([t_p, ...])
NewTensor ==
    /\ Step
    /\ \E ids \in SeqsUpTo(TPRefs, MaxTerms) :
          IF ListRankError(tp, ids)
          THEN /\ last' = Done("Tensor", 0, NoOther, Raise("ValueError"))
               /\ UNCHANGED <<tp, tensors>>
          ELSE /\ tensors' = Append(tensors, ids)
               /\ last' = Done("Tensor", 0, NoOther, Ret("Tensor", 0, Len(tensors) + 1))
               /\ UNCHANGED tp

\* Tensor(T): the new Tensor takes T's tensor_products
CopyTensor ==
    /\ Step
    /\ \E t \in TensorRefs :
          /\ tensors' = Append(tensors, tensors[t])
          /\ last' = Done("Copy", t, NoOther, Ret("Tensor", 0, Len(tensors) + 1))
    /\ UNCHANGED tp

Operands ==
    {[kind |-> "Scalar", ref |-> x] : x \in Coeffs}
      \cup {[kind |-> "Tensor", ref |-> u] : u \in TensorRefs}
      \cup {[kind |-> "TensorProduct", ref |-> q] : q \in TPRefs}

OperandRank(T) ==
    IF T.kind = "Tensor" THEN TensorRank(tp, tensors[T.ref]) ELSE rank(tp[T.ref])

OperandTerms(T) == IF T.kind = "Tensor" THEN tensors[T.ref] ELSE <<T.ref>>

AsRet(T) == IF T.kind = "Scalar" THEN Scalar(T.ref) ELSE Ret(T.kind, 0, T.ref)

\* _TensorFunction.__add__(self, T): what it returns when it builds no new Tensor
AddReturn(self, T) ==
    IF T.kind = "Scalar" /\ T.ref = 0 THEN Ret("Tensor", 0, self)
    ELSE IF TensorRank(tp, tensors[self]) = 0 THEN AsRet(T)
    ELSE IF T.kind = "Scalar" THEN Raise("AttributeError")
    ELSE IF OperandRank(T) = 0 THEN Ret("Tensor", 0, self)
    ELSE IF OperandRank(T) # TensorRank(tp, tensors[self]) THEN Raise("ValueError")
    ELSE Ret("New", 0, 0)

Add ==
    /\ Step
    /\ \E self \in TensorRefs, T \in Operands :
       LET r == AddReturn(self, T)
       IN  IF r.kind # "New"
           THEN /\ last' = Done("Add", self, T, r)
                /\ UNCHANGED <<tp, tensors>>
           ELSE /\ Len(tensors[self]) + Len(OperandTerms(T)) <= MaxTerms
                /\ tensors' = Append(tensors, tensors[self] \o OperandTerms(T))
                /\ last' = Done("Add", self, T, Ret("Tensor", 0, Len(tensors) + 1))
                /\ UNCHANGED tp

\* Iterating a Tensor with no terms runs "raise StopIteration()" inside the
\* generator __iter__: the iteration just ends on the interpreters the module
\* was written for, and raises RuntimeError on those with PEP 479 in force.
Compress ==
    /\ Step
    /\ \E self \in TensorRefs, pep479 \in BOOLEAN :
       LET c == compress(tp, tensors[self])
       IN  IF tensors[self] = << >> /\ pep479
           THEN /\ last' = Op("Compress", self, NoOther, << >>, 0, 0, Raise("RuntimeError"),
                              tp, tensors[self])
                /\ UNCHANGED <<tp, tensors>>
           ELSE /\ InCap(c.h)
                /\ tp' = c.h
                /\ tensors' = [tensors EXCEPT ![self] = c.ids]
                /\ last' = Op("Compress", self, NoOther, << >>, 0, 0,
                              IF c.ids = << >> THEN Scalar(0) ELSE Ret("Tensor", 0, self),
                              tp, tensors[self])

VecSeq == <<"e1", "e2", "u">>

MulOperands == Operands \cup {[kind |-> "Vector", ref |-> n] : n \in 1..Len(VecSeq)}

\* the terms t_p*B (or t_pA*t_pB) that __mul__ hands to Tensor(), in order
Products(self, B) ==
    CASE B.kind = "Tensor" ->
           Flatten2([a \in 1..Len(tensors[self]) |->
                       [b \in 1..Len(tensors[B.ref]) |->
                          TensorProductMul(tp[tensors[self][a]], tp[tensors[B.ref][b]])]])
      [] B.kind = "TensorProduct" ->
           [a \in 1..Len(tensors[self]) |-> TensorProductMul(tp[tensors[self][a]], tp[B.ref])]
      [] B.kind = "Vector" ->
           [a \in 1..Len(tensors[self]) |-> TensorProductMulVector(tp[tensors[self][a]], VecSeq[B.ref])]
      [] B.kind = "Scalar" ->
           [a \in 1..Len(tensors[self]) |-> TensorProductMulScalar(tp[tensors[self][a]], B.ref)]

IteratesEmpty(self, B) ==
    \/ tensors[self] = << >>
    \/ B.kind = "Tensor" /\ tensors[B.ref] = << >>

NewRefs(h, n) == [i \in 1..n |-> Len(h) + i]

\* _TensorFunction.__mul__(self, B).  t_p*B is the integer 0 when B simplifies
\* to zero, and Tensor() then asks the integer for its rank.
Mul ==
    /\ Step
    /\ \E self \in TensorRefs, B \in MulOperands, pep479 \in BOOLEAN :
       LET new == Products(self, B)
           h == tp \o new
           ids == NewRefs(tp, Len(new))
       IN  IF IteratesEmpty(self, B) /\ pep479
           THEN /\ last' = Done("Mul", self, B, Raise("RuntimeError"))
                /\ UNCHANGED <<tp, tensors>>
           ELSE IF B.kind = "Scalar" /\ simplify(B.ref) = 0 /\ tensors[self] # << >>
           THEN /\ last' = Done("Mul", self, B, Raise("AttributeError"))
                /\ UNCHANGED <<tp, tensors>>
           ELSE /\ Len(new) <= MaxTerms
                /\ InCap(h)
                /\ IF ListRankError(h, ids)
                   THEN /\ tp' = h
                        /\ last' = Done("Mul", self, B, Raise("ValueError"))
                        /\ UNCHANGED tensors
                   ELSE /\ tp' = h
                        /\ tensors' = Append(tensors, ids)
                        /\ last' = Done("Mul", self, B, Ret("Tensor", 0, Len(tensors) + 1))

FirstRaise(items) ==
    LET bad == SelectSeq(items, LAMBDA r : r.ret.kind \in Exceptions)
    IN  IF bad = << >> THEN Scalar(0) ELSE bad[1].ret

\* _TensorFunction.trace(j, k): the sum of the terms' traces, compressed when
\* it is a Tensor.
Trace ==
    /\ Step
    /\ \E self \in TensorRefs, j \in 0..(MaxRank - 1), k \in 0..(MaxRank - 1), pep479 \in BOOLEAN :
       LET items == [i \in 1..Len(tensors[self]) |-> TensorProductTrace(tp[tensors[self][i]], j, k)]
           new == Flatten2([i \in 1..Len(items) |-> items[i].new])
           h == tp \o new
           c == compress(h, NewRefs(tp, Len(new)))
           called == Op("Trace", self, NoOther, << >>, j, k, Scalar(0), << >>, << >>)
       IN  IF tensors[self] = << >> /\ pep479
           THEN /\ last' = [called EXCEPT !.ret = Raise("RuntimeError")]
                /\ UNCHANGED <<tp, tensors>>
           ELSE IF FirstRaise(items).kind \in Exceptions
           THEN /\ last' = [called EXCEPT !.ret = FirstRaise(items)]
                /\ UNCHANGED <<tp, tensors>>
           ELSE IF new = << >>
           THEN /\ last' = [called EXCEPT !.ret = Scalar(sum([i \in 1..Len(items) |-> items[i].ret.val]))]
                /\ UNCHANGED <<tp, tensors>>
           ELSE /\ InCap(c.h)
                /\ tp' = c.h
                /\ IF c.ids = << >>
                   THEN /\ last' = called
                        /\ UNCHANGED tensors
                   ELSE /\ tensors' = Append(tensors, c.ids)
                        /\ last' = [called EXCEPT !.ret = Ret("Tensor", 0, Len(tensors) + 1)]

Next == NewTensorProduct \/ NewTensor \/ CopyTensor \/ Add \/ Compress \/ Mul \/ Trace

Spec == Init /\ [][Next]_vars

(***************************************************************************)
(* SpecShare: as Spec, from the state in which one TensorProduct has been  *)
(* constructed.                                                            *)
(***************************************************************************)
InitShare ==
    /\ \E A \in HeapTPValues : tp = <<A>>
    /\ tensors = << >>
    /\ ops = 0
    /\ last = Done("TensorProduct", 0, NoOther, Ret("TensorProduct", 0, 1))

SpecShare == InitShare /\ [][Next]_vars

(***************************************************************************)
(* SpecCompress: one Tensor has been constructed from up to MaxTerms terms *)
(* of rank 2, where a TensorProduct object may fill several positions, and *)
(* is then compressed, repeatedly.  The objects are numbered in the order  *)
(* of their first position.                                                *)
(***************************************************************************)
CompressTPValues ==
    {TensorProduct(vs, c, s) : vs \in {<<"e1", "e2">>, <<"e2", "e1">>, <<"e1", "e1">>},
                               c \in {-1, 0, 1}, s \in BOOLEAN}

Refs(ids) == {ids[i] : i \in 1..Len(ids)}

MaxRef(ids) == IF ids = << >> THEN 0 ELSE CHOOSE m \in Refs(ids) : \A r \in Refs(ids) : r <= m

FirstUse(ids) ==
    \A i \in 1..Len(ids) : ids[i] <= 1 + MaxRef(SubSeq(ids, 1, i - 1))

InitCompress ==
    /\ \E ids \in SeqsUpTo(1..MaxTerms, MaxTerms) :
          /\ FirstUse(ids)
          /\ \E h \in [1..MaxRef(ids) -> CompressTPValues] :
                /\ ~ListRankError(h, ids)
                /\ tp = h
                /\ tensors = <<ids>>
    /\ ops = 0
    /\ last = Done("Tensor", 0, NoOther, Ret("Tensor", 0, 1))

NextCompress == Compress

SpecCompress == InitCompress /\ [][NextCompress]_vars

(***************************************************************************)
(* Strings are sequences of characters.  SpecDifferentiate: a name and a   *)
(* parameter are chosen and DifferentiateString is applied to the name and *)
(* then to what it returned, until it raises.                              *)
(***************************************************************************)
\* the characters of r'\partial_'
partial == <<"\\", "p", "a", "r", "t", "i", "a", "l", "_">>

startswith(s, pre) == Len(s) >= Len(pre) /\ SubSeq(s, 1, Len(pre)) = pre

\* s[k:]
From(s, k) == SubSeq(s, k + 1, Len(s))

Digits == <<"0", "1", "2", "3", "4", "5", "6", "7", "8", "9">>

DigitValue(c) == (CHOOSE d \in 1..10 : Digits[d] = c) - 1

\* the decimal text of n, as format() writes an int
RECURSIVE str(_)
str(n) == IF n < 10 THEN <<Digits[n + 1]>> ELSE str(n \div 10) \o <<Digits[(n % 10) + 1]>>

RECURSIVE strip(_)
strip(s) ==
    IF s = << >> THEN s
    ELSE IF Head(s) = " " THEN strip(Tail(s))
    ELSE IF s[Len(s)] = " " THEN strip(SubSeq(s, 1, Len(s) - 1))
    ELSE s

RECURSIVE DecimalValue(_)
DecimalValue(s) ==
    IF s = << >> THEN 0 ELSE 10 * DecimalValue(SubSeq(s, 1, Len(s) - 1)) + DigitValue(s[Len(s)])

\* int(text): surrounding blanks are skipped; anything but a non-empty run
\* of digits raises ValueError
int(s) ==
    LET t == strip(s)
    IN  IF t # << >> /\ \A n \in 1..Len(t) : \E d \in 1..10 : Digits[d] = t[n]
        THEN Ret("int", DecimalValue(t), 0)
        ELSE Raise("ValueError")

\* re.sub(r'\\partial_.*?\^\{(.*)\}(.*)', increment_match, s).  A match starts
\* at the leftmost \partial_ that has a ^{ behind it with a } behind that;
\* .*? stops at the first such ^{, group 1 is greedy and runs to the last }
\* of the string, group 2 is what follows that }.  Group 2 reaches the end of
\* the string, so there is one match at most.
sub(s, param) ==
    LET closes == {c \in 1..Len(s) : s[c] = "}"}
        carets(a) == {b \in (a + Len(partial))..(Len(s) - 1) :
                        /\ s[b] = "^" /\ s[b + 1] = "{"
                        /\ \E c \in closes : c > b + 1}
        starts == {a \in 1..Len(s) :
                     /\ a + Len(partial) - 1 <= Len(s)
                     /\ SubSeq(s, a, a + Len(partial) - 1) = partial
                     /\ carets(a) # {}}
    IN  IF starts = {} THEN Ret("str", s, 0)
        ELSE LET a == CHOOSE x \in starts : \A y \in starts : x <= y
                 b == CHOOSE x \in carets(a) : \A y \in carets(a) : x <= y
                 c == CHOOSE x \in closes : \A y \in closes : y <= x
                 k == int(SubSeq(s, b + 2, c - 1))
             IN  IF k.kind = "ValueError" THEN k
                 ELSE Ret("str", SubSeq(s, 1, a - 1) \o partial \o param \o <<"^", "{">>
                                   \o str(k.val + 1) \o <<"}">> \o From(s, c), 0)

DifferentiateString(s, param) ==
    IF startswith(s, partial \o param \o <<"^", "{">>) THEN sub(s, param)
    ELSE IF startswith(s, partial \o param)
         THEN Ret("str", partial \o param \o <<"^", "{", "2", "}">> \o From(s, 10), 0)
    ELSE Ret("str", partial \o param \o <<" ">> \o s, 0)

NameChars == {"x", "_", "{", "}", "1"}

Params == {<<"t">>, <<"t", "a", "u">>}

StringOp(op, name, param, latex, ret) ==
    [op |-> op, name |-> name, param |-> param, latex |-> latex, ret |-> ret]

InitDifferentiate ==
    /\ tp = << >>
    /\ tensors = << >>
    /\ ops = 0
    /\ \E name \in SeqsUpTo(NameChars, MaxLen), param \in Params :
          last = StringOp("None", name, param, FALSE, Ret("str", name, 0))

DoDifferentiateString ==
    /\ ops < MaxApply
    /\ last.ret.kind = "str"
    /\ ops' = ops + 1
    /\ last' = StringOp("DifferentiateString", last.name, last.param, FALSE,
                        DifferentiateString(last.ret.val, last.param))
    /\ UNCHANGED <<tp, tensors>>

NextDifferentiate == DoDifferentiateString

SpecDifferentiate == InitDifferentiate /\ [][NextDifferentiate]_vars

(***************************************************************************)
(* SpecDelimit: a text is chosen and DelimitString is applied to it and    *)
(* then to what it returned, in LaTeX or in plain mode at each call.       *)
(***************************************************************************)
\* left, right = [r'\left', r'\right'] or ['', '']
left(latex) == IF latex THEN <<"\\", "l", "e", "f", "t">> ELSE << >>

right(latex) == IF latex THEN <<"\\", "r", "i", "g", "h", "t">> ELSE << >>

\* the list ['(','[','\{'] of strings, or the characters of the string '([{'
DelimiterOpeners(latex) ==
    IF latex THEN << <<"(">>, <<"[">>, <<"\\", "{">> >>
    ELSE << <<"(">>, <<"[">>, <<"{">> >>

DelimiterClosers(latex) ==
    IF latex THEN << <<")">>, <<"]">>, <<"\\", "}">> >>
    ELSE << <<")">>, <<"]">>, <<"}">> >>

\* FindFirst(S, D): the first character of S that equals an element of D, as
\* the position of that element in D; 0 for None.  A character never equals
\* an element of two characters.
FindFirst(S, D) ==
    LET hits == {n \in 1..Len(S) : \E m \in 1..Len(D) : <<S[n]>> = D[m]}
    IN  IF hits = {} THEN 0
        ELSE LET n == CHOOSE x \in hits : \A y \in hits : x <= y
             IN  CHOOSE m \in 1..Len(D) : <<S[n]>> = D[m]

DelimitString(S, latex) ==
    LET D == DelimiterOpeners(latex)
        FirstDelim == FindFirst(S, D)
        NewDelimiterIndex == (((FirstDelim - 1) + 1) % Len(D)) + 1
    IN  IF FirstDelim = 0
        THEN left(latex) \o <<"(">> \o S \o right(latex) \o <<")">>
        ELSE left(latex) \o D[NewDelimiterIndex] \o <<" ">> \o S \o <<" ">>
               \o right(latex) \o DelimiterClosers(latex)[NewDelimiterIndex]

TextChars == {"a", "(", ")", "[", "{"}

InitDelimit ==
    /\ tp = << >>
    /\ tensors = << >>
    /\ ops = 0
    /\ \E S \in SeqsUpTo(TextChars, MaxLen) :
          last = StringOp("None", << >>, << >>, FALSE, Ret("str", S, 0))

DoDelimitString ==
    /\ ops < MaxApply
    /\ ops' = ops + 1
    /\ \E latex \in BOOLEAN :
          last' = StringOp("DelimitString", last.ret.val, << >>, latex,
                           Ret("str", DelimitString(last.ret.val, latex), 0))
    /\ UNCHANGED <<tp, tensors>>

NextDelimit == DoDelimitString

SpecDelimit == InitDelimit /\ [][NextDelimit]_vars

(***************************************************************************)
(* Claims about the vector and tensor-product layer (SpecTP).              *)
(***************************************************************************)
A0 == tp[1]

B0 == tp[2]

dim(v) == Len(components(v))

RECURSIVE ElementwiseSum(_, _, _)
ElementwiseSum(v, w, n) ==
    IF n = 0 THEN 0 ELSE components(v)[n] * components(w)[n] + ElementwiseSum(v, w, n - 1)

RECURSIVE PositionwiseDots(_, _, _)
PositionwiseDots(a, b, n) ==
    IF n = 0 THEN 1 ELSE VectorOr(a[n], b[n]) * PositionwiseDots(a, b, n - 1)

E1E2 == TensorProduct(<<"e1", "e2">>, 1, FALSE)

E2E1 == TensorProduct(<<"e2", "e1">>, 1, FALSE)

E1E1 == TensorProduct(<<"e1", "e1">>, 1, FALSE)

AsymmetricContraction ==
    /\ last.op = "TensorProductOr"
    /\ ~A0.symmetric
    /\ ~B0.symmetric

ContractionFormula ==
    IF rank(A0) # rank(B0) THEN last.ret = Raise("ValueError")
    ELSE last.ret = Scalar(A0.coefficient * B0.coefficient
                             * PositionwiseDots(A0.vectors, B0.vectors, rank(A0)))

\* C3 (as claimed): A|B for asymmetric A and B raises the rank-mismatch error
\* when the ranks differ and otherwise returns coefficient(A)*coefficient(B)
\* times the product over the positions i of A.vectors[i]|B.vectors[i];
\* e1*e2 contracted with itself yields 0 and e1*e1 with itself yields 1.
C3_ContractionWithClaimedExample ==
    AsymmetricContraction =>
        /\ ContractionFormula
        /\ (A0 = E1E2 /\ B0 = E1E2) => last.ret = Scalar(0)
        /\ (A0 = E1E1 /\ B0 = E1E1) => last.ret = Scalar(1)

\* C3 (amended): the same rank check and position-wise formula; for
\* orthonormal e1, e2 the product e1*e2 contracted with itself yields 1 (it
\* is e1*e2 contracted with e2*e1 that yields 0), and e1*e1 contracted with
\* itself yields 1.
C3_Contraction ==
    AsymmetricContraction =>
        /\ ContractionFormula
        /\ (A0 = E1E2 /\ B0 = E1E2) => last.ret = Scalar(1)
        /\ (A0 = E1E2 /\ B0 = E2E1) => last.ret = Scalar(0)
        /\ (A0 = E1E1 /\ B0 = E1E1) => last.ret = Scalar(1)

C3_Witness ==
    /\ AsymmetricContraction
    /\ A0 = E1E2
    /\ B0 = E1E2
    /\ last.ret.kind = "Scalar"

Injections(n) == {f \in [1..n -> 1..n] : \A a \in 1..n, b \in 1..n : f[a] = f[b] => a = b}

RECURSIVE SumOver(_, _, _, _)
SumOver(S, a, b, n) ==
    IF S = {} THEN 0
    ELSE LET f == CHOOSE g \in S : TRUE
         IN  PositionwiseDots([i \in 1..n |-> a[f[i]]], b, n) + SumOver(S \ {f}, a, b, n)

\* C4: for a symmetric A and a TensorProduct B of the same rank r, A|B
\* completes with the Scalar coefficient(A)*coefficient(B)/r! times the sum
\* over the r! permutations p of the product of A.vectors[p(i)]|B.vectors[i].
C4_SymmetricContraction ==
    (last.op = "TensorProductOr" /\ A0.symmetric /\ rank(A0) = rank(B0)) =>
        /\ last.ret.kind = "Scalar"
        /\ Fact(rank(A0)) * last.ret.val =
              A0.coefficient * B0.coefficient
                * SumOver(Injections(rank(A0)), A0.vectors, B0.vectors, rank(A0))

\* C8: v|w raises an error when v and w have different numbers of
\* components, and otherwise returns the sum of the elementwise products.
C8_DimensionMismatchRaises ==
    last.op = "VectorOr" =>
        LET v == last.vs[1]
            w == last.vs[2]
        IN  IF dim(v) # dim(w) THEN last.ret.kind \in Exceptions
            ELSE last.ret = Scalar(ElementwiseSum(v, w, dim(v)))

\* The remaining slots of a symmetric product, as a multiset, after slots a
\* and b (counted from 1) are removed.
Remaining(A, a, b) == Counter([i \in 1..Len(without(A.vectors, a - 1, b - 1)) |->
                                 without(A.vectors, a - 1, b - 1)[i][2]])

OrderedPairs(A) == {p \in (1..rank(A)) \X (1..rank(A)) : p[1] # p[2]}

RECURSIVE PairSum(_, _)
PairSum(A, S) ==
    IF S = {} THEN 0
    ELSE LET p == CHOOSE q \in S : TRUE
         IN  A.coefficient * VectorOr(A.vectors[p[1]], A.vectors[p[2]]) + PairSum(A, S \ {p})

\* rank! times the coefficient the symmetrised trace gives the basis element m
SymmetricTraceCoefficient(A, m) ==
    PairSum(A, {p \in OrderedPairs(A) : Remaining(A, p[1], p[2]) = m})

SymmetricTraceIsZero(A) ==
    \A p \in OrderedPairs(A) : SymmetricTraceCoefficient(A, Remaining(A, p[1], p[2])) = 0

\* C5: trace(j, k) of a symmetric TensorProduct of rank > 2 completes with
\* the compressed sum over all ordered pairs of distinct slots, whichever
\* slots j, k were passed: it raises nothing, and it is the Scalar zero
\* only when that sum has no term left.
C5_SymmetricTrace ==
    (/\ last.op = "TensorProductTrace"
     /\ A0.symmetric
     /\ rank(A0) > 2
     /\ last.j < rank(A0)
     /\ last.k < rank(A0)
     /\ last.j # last.k) =>
        /\ last.ret.kind \notin Exceptions
        /\ last.ret.kind = "Scalar" => SymmetricTraceIsZero(A0)


(***************************************************************************)
(* Claims about compress (SpecCompress).                                   *)
(***************************************************************************)
Compressed == last.op = "Compress" /\ last.ret.kind \notin Exceptions

\* the terms compress started from and the terms it left, by position
TermsIn == [i \in 1..Len(last.ids0) |-> last.tp0[last.ids0[i]]]

TermsOut == [i \in 1..Len(tensors[last.self]) |-> tp[tensors[last.self][i]]]

\* one kind of term throughout: all symmetric or all asymmetric
Uniform(terms) == \A i \in 1..Len(terms), j \in 1..Len(terms) : terms[i].symmetric = terms[j].symmetric

SameBasis(A, B) ==
    /\ A.symmetric = B.symmetric
    /\ IF A.symmetric THEN \A v \in Vecs : Count(A.vectors, v) = Count(B.vectors, v)
       ELSE A.vectors = B.vectors

RECURSIVE CoefficientSum(_, _)
CoefficientSum(terms, A) ==
    IF terms = << >> THEN 0
    ELSE (IF SameBasis(Head(terms), A) THEN Head(terms).coefficient ELSE 0)
           + CoefficientSum(Tail(terms), A)

NoRepeatedRef(ids) == \A i \in 1..Len(ids), j \in 1..Len(ids) : ids[i] = ids[j] => i = j

MergedCorrectly ==
    /\ \A i \in 1..Len(TermsOut), j \in 1..Len(TermsOut) :
          SameBasis(TermsOut[i], TermsOut[j]) => i = j
    /\ \A i \in 1..Len(TermsOut) :
          TermsOut[i].coefficient = simplify(CoefficientSum(TermsIn, TermsOut[i]))

\* C1: after compress no two terms have the same basis element, and the
\* coefficient of each remaining term is the sum of the coefficients of all
\* the input terms with that basis element (stated for a Tensor whose terms
\* are all symmetric or all asymmetric).
C1_MergesLikeTerms ==
    (Compressed /\ Uniform(TermsIn)) => MergedCorrectly

\* The same when every position of the Tensor holds a TensorProduct object of
\* its own.
MergesLikeTermsUnshared ==
    (Compressed /\ Uniform(TermsIn) /\ NoRepeatedRef(last.ids0)) => MergedCorrectly

OppositePair ==
    /\ Len(TermsIn) = 2
    /\ NoRepeatedRef(last.ids0)
    /\ SameBasis(TermsIn[1], TermsIn[2])
    /\ TermsIn[1].coefficient # 0
    /\ TermsIn[1].coefficient = -TermsIn[2].coefficient

\* C2: what compress returns holds no term whose coefficient simplifies to
\* zero, it is the Scalar zero exactly when no term remains, and two terms
\* with the same basis element and coefficients c and -c give the Scalar zero.
C2_NoZeroTermLeft ==
    Compressed =>
        /\ \A i \in 1..Len(TermsOut) : simplify(TermsOut[i].coefficient) # 0
        /\ last.ret = Scalar(0) <=> TermsOut = << >>
        /\ OppositePair => last.ret = Scalar(0)

\* the terms of compress's result on the term list ids over the heap h, as a
\* set of <<vectors or multiset of vectors, coefficient>>
BasisOf(A) == IF A.symmetric THEN [n \in 1..Len(VecSeq) |-> Count(A.vectors, VecSeq[n])]
              ELSE [n \in 1..Len(A.vectors) |-> CHOOSE m \in 1..Len(VecSeq) : VecSeq[m] = A.vectors[n]]

ResultTerms(h, ids) ==
    LET c == compress(h, ids)
    IN  {<<BasisOf(c.h[c.ids[i]]), c.h[c.ids[i]].coefficient>> : i \in 1..Len(c.ids)}

Reorderings(ids) == {[i \in 1..Len(ids) |-> ids[f[i]]] : f \in Injections(Len(ids))}

\* C10: compress gives the same set of (basis element, coefficient) terms, or
\* the Scalar zero, for every order of the input terms (stated for a Tensor
\* whose terms are all of one kind and are all different objects).
C10_OrderIndependent ==
    (Compressed /\ Uniform(TermsIn) /\ NoRepeatedRef(last.ids0)) =>
        \A q \in Reorderings(last.ids0) :
            ResultTerms(last.tp0, q) = ResultTerms(last.tp0, last.ids0)

\* C11: when compress is called on what an earlier compress returned as a
\* Tensor, it leaves term for term the same basis elements and coefficients,
\* in the same order.
C11_Idempotent ==
    (Compressed /\ ops >= 2 /\ last.ret.kind = "Tensor") => TermsOut = TermsIn

C11_Witness ==
    /\ Compressed
    /\ ops = 2
    /\ last.ret.kind = "Tensor"
    /\ Len(TermsOut) >= 2
    /\ \E n \in 1..Len(TermsOut) : Abs(TermsOut[n].coefficient) >= 2

(***************************************************************************)
(* Claims about the string functions (SpecDifferentiate).                  *)
(***************************************************************************)
\* the derivative marker of order n for a parameter: bare for n = 1
Marker(param, n) ==
    IF n = 1 THEN partial \o param
    ELSE partial \o param \o <<"^", "{">> \o str(n) \o <<"}">>

\* C12: DifferentiateString applied n >= 1 times to a name that starts with
\* no derivative marker returns one marker for the parameter, bare for n = 1
\* and of explicit order n for n >= 2, then a blank and the name unchanged,
\* whatever the name (braces included) and the parameter.
C12_DerivativeNaming ==
    (last.op = "DifferentiateString") =>
        last.ret = Ret("str", Marker(last.param, ops) \o <<" ">> \o last.name, 0)

\* the first character of the text that is ( or [ or {; "" when there is none
FirstOpener(S) ==
    LET hits == {n \in 1..Len(S) : S[n] \in {"(", "[", "{"}}
    IN  IF hits = {} THEN "" ELSE S[CHOOSE x \in hits : \A y \in hits : x <= y]

\* the rotation ( -> [ -> { -> (, and ( for a text without delimiter
Rotated(c) == IF c = "(" THEN "[" ELSE IF c = "[" THEN "{" ELSE "("

Closing(c) == IF c = "(" THEN ")" ELSE IF c = "[" THEN "]" ELSE "}"

\* the text inside the delimiter c, with or without a blank on either side
WrappedIn(S, c, latex) ==
    LET esc == IF latex /\ c = "{" THEN <<"\\">> ELSE << >>
    IN  {left(latex) \o esc \o <<c>> \o pad \o S \o pad \o right(latex) \o esc \o <<Closing(c)>> :
           pad \in {<< >>, <<" ">>}}

\* C13: in LaTeX and in plain mode, DelimitString wraps the whole text in
\* the delimiter that follows, in the rotation ( -> [ -> { -> (, the first
\* of the characters ( [ { in the text, and in parentheses when the text
\* has none of them.
C13_DelimiterRotation ==
    (last.op = "DelimitString") =>
        /\ last.ret.kind = "str"
        /\ last.ret.val \in WrappedIn(last.name, Rotated(FirstOpener(last.name)), last.latex)

(***************************************************************************)
(* Claims about sharing and addition (SpecShare).                          *)
(***************************************************************************)
TermsOf(h, t) == [i \in 1..Len(tensors[t]) |-> h[tensors[t][i]]]

\* C6: compressing one Tensor leaves the terms and the coefficients of every
\* other Tensor as they were, also when they hold the same TensorProduct.
C6_CompressLeavesOthersUnchanged ==
    Compressed =>
        \A u \in TensorRefs \ {last.self} : TermsOf(tp, u) = TermsOf(last.tp0, u)

SelfRank == TensorRank(tp, tensors[last.self])

\* C7: adding to a Tensor of rank > 0, the Scalar zero returns the Tensor
\* itself, any other bare scalar is an error, and a TensorProduct or a Tensor
\* with terms whose rank is not the Tensor's rank (rank 0 included) is the
\* rank-mismatch error.
C7_AddRejectsOtherRank ==
    (last.op = "Add" /\ SelfRank > 0) =>
        LET T == last.other
        IN  /\ (T.kind = "Scalar" /\ T.ref = 0) => last.ret = Ret("Tensor", 0, last.self)
            /\ (T.kind = "Scalar" /\ T.ref # 0) => last.ret.kind \in Exceptions
            /\ (T.kind = "TensorProduct" /\ OperandRank(T) # SelfRank)
                 => last.ret = Raise("ValueError")
            /\ (T.kind = "Tensor" /\ tensors[T.ref] # << >> /\ OperandRank(T) # SelfRank)
                 => last.ret = Raise("ValueError")

====
